---- MODULE Spec2Model ----
(***************************************************************************)
(* Model of the REDCap error-check importer                                *)
(* (tools/redcap_error_checks_import): ErrorCheckKey, ErrorCheckImportStats*)
(* (utils/utils.py), ErrorCheckCSVVisitor and read_csv (utils/visitor.py), *)
(* REDCapErrorChecksImporter (importer.py) and REDCapProject.import_records*)
(* (redcap_api/redcap_project.py).                                         *)
(*                                                                         *)
(* Python strings are sequences of one-character strings, so that split,   *)
(* startswith, endswith, lower and the substring test are computed.  None  *)
(* is the one-element sequence NoneVal, which is no character sequence.    *)
(* A dict is a sequence of [f, v] entries in insertion order.  A function  *)
(* that can raise returns a record whose exc field names the exception     *)
(* class ("none" when it returns normally).                                *)
(***************************************************************************)
EXTENDS Integers, Sequences, FiniteSets, TLC

VARIABLES
    fail_fast,     \* REDCapErrorChecksImporter.__fail_fast
    dry_run,       \* REDCapErrorChecksImporter.__dry_run
    modules,       \* REDCapErrorChecksImporter.__modules
    stats,         \* REDCapErrorChecksImporter.__stats (ErrorCheckImportStats)
    nfiles,        \* length of the listing list_objects_v2 returned
    listed,        \* the keys of the listing the loop of run has reached, in order
    pc,            \* position in run: "loop", "load", "import", "done"; "stats" in SpecStats
    error_key,     \* run's local error_key (the parsed key of the current file)
    error_checks,  \* run's local error_checks (the batch being imported)
    outcome,       \* how run ended: [kind, exc, at, report]
    files,         \* history: one record per file loaded from the object store
    transport,     \* history: one record per call of the import transport
    calls,         \* history: one record per call of add_error_codes
    subject        \* SpecKey, SpecVisitor: the arguments and results of the calls made

vars == <<fail_fast, dry_run, modules, stats, nfiles, listed, pc, error_key,
          error_checks, outcome, files, transport, calls, subject>>

---------------------------------------------------------------------------
(* Bounds of the model. *)

\* Most keys a listing holds.
MaxFiles == 3

\* Most add_error_codes calls of a SpecStats behaviour.
MaxCalls == 3

\* Longest code list of one add_error_codes call in SpecStats.
MaxCodes == 2

\* Most '/'-separated segments of a key in SpecKey.
MaxSegments == 6

\* Most lines after the header of a file in SpecRead.
MaxLines == 3

---------------------------------------------------------------------------
(* Python values. *)

NoneVal == <<"<None>">>

EmptyStr == <<>>

Range(s) == {s[i] : i \in 1..Len(s)}

\* Python truthiness of a str, list or None: None and the empty value are falsy.
Truthy(v) == v # NoneVal /\ v # <<>>

\* s.startswith(p)
StartsWith(s, p) == Len(p) <= Len(s) /\ SubSeq(s, 1, Len(p)) = p

\* s.endswith(p)
EndsWith(s, p) == Len(p) <= Len(s) /\ SubSeq(s, Len(s) - Len(p) + 1, Len(s)) = p

\* sub in s
Contains(s, sub) ==
    \E i \in 1..(Len(s) + 1) :
        i + Len(sub) - 1 <= Len(s) /\ SubSeq(s, i, i + Len(sub) - 1) = sub

RECURSIVE SplitFrom(_, _, _, _)
SplitFrom(s, sep, cur, i) ==
    IF i > Len(s) THEN <<cur>>
    ELSE IF s[i] = sep THEN <<cur>> \o SplitFrom(s, sep, <<>>, i + 1)
    ELSE SplitFrom(s, sep, Append(cur, s[i]), i + 1)

\* s.split(sep) for a one-character separator
Split(s, sep) == SplitFrom(s, sep, <<>>, 1)

UpperChars == <<"A", "B", "C", "D", "E", "F", "G", "H", "I", "J", "K", "L", "M", "N", "O", "P", "Q", "R", "S", "T", "U", "V", "W", "X", "Y", "Z">>

LowerChars == <<"a", "b", "c", "d", "e", "f", "g", "h", "i", "j", "k", "l", "m", "n", "o", "p", "q", "r", "s", "t", "u", "v", "w", "x", "y", "z">>

LowerChar(c) ==
    IF \E i \in 1..Len(UpperChars) : UpperChars[i] = c
    THEN LowerChars[CHOOSE i \in 1..Len(UpperChars) : UpperChars[i] = c]
    ELSE c

\* s.lower()
Lower(s) == [i \in 1..Len(s) |-> LowerChar(s[i])]

RECURSIVE Concat(_)
Concat(ss) == IF ss = <<>> THEN <<>> ELSE Head(ss) \o Concat(Tail(ss))

RECURSIVE SumSeq(_)
SumSeq(ns) == IF ns = <<>> THEN 0 ELSE Head(ns) + SumSeq(Tail(ns))

\* d.get(name, default) on a dict held as a sequence of entries
Get(d, name, default) ==
    IF \E i \in 1..Len(d) : d[i].f = name
    THEN d[CHOOSE i \in 1..Len(d) : d[i].f = name].v
    ELSE default

\* name in d
HasField(d, name) == \E i \in 1..Len(d) : d[i].f = name

---------------------------------------------------------------------------
(* utils/utils.py: ErrorCheckKey *)

CsvMarker == <<"C", "S", "V">>

CsvSuffix == <<".", "c", "s", "v">>

Enroll == <<"E", "N", "R", "O", "L", "L">>

Enrl == <<"e", "n", "r", "l">>

HeaderToken == <<"h", "e", "a", "d", "e", "r">>

HeaderSuffix == <<"_", "h", "e", "a", "d", "e", "r">>

PacketI4 == <<"I", "4">>

VisitI4 == <<"i", "4", "v", "p">>

VisitF == <<"f", "v", "p">>

VisitI == <<"i", "v", "p">>

NoKey == [full_path |-> NoneVal, csv |-> NoneVal, module |-> NoneVal,
          form_ver |-> NoneVal, filename |-> NoneVal, form_name |-> NoneVal,
          packet |-> NoneVal]

Raise(e) == [exc |-> e, key |-> NoKey]

\* A parser that accepts any top-level segment.
TopLevelUnchecked(key_parts) == FALSE

\* create_from_key: `key_parts[0] != 'CSV'`
wrong_top_level(key_parts) == key_parts[1] # CsvMarker

\* A parser that keeps the token 'header' as the form name.
FormNameKeepsHeader(module, tokens) == tokens[2]

\* create_from_key, lines 49-51: filename.split('_')[1], or the lower-cased
\* module followed by '_header' when that token is 'header'.
form_name_of(module, tokens) ==
    IF tokens[2] = HeaderToken THEN Lower(module) \o HeaderSuffix ELSE tokens[2]

\* A parser without the assert (as under python -O).
EnrollKeyUnasserted(key, key_parts) ==
    [exc |-> "none",
     key |-> [full_path |-> key,
              csv |-> key_parts[1],
              module |-> key_parts[2],
              form_ver |-> key_parts[3],
              packet |-> NoneVal,
              filename |-> key_parts[4],
              form_name |-> Enrl]]

\* create_from_key, lines 60-70: the 4-segment form.
enroll_key(key, key_parts) ==
    IF key_parts[2] # Enroll THEN Raise("AssertionError")
    ELSE [exc |-> "none",
          key |-> [full_path |-> key,
                   csv |-> key_parts[1],
                   module |-> key_parts[2],
                   form_ver |-> key_parts[3],
                   packet |-> NoneVal,
                   filename |-> key_parts[4],
                   form_name |-> Enrl]]

\* ErrorCheckKey.create_from_key
create_from_key(key) ==
    LET key_parts == Split(key, "/") IN
    IF wrong_top_level(key_parts) THEN Raise("ValueError")
    ELSE IF Len(key_parts) = 5 THEN
        LET module == key_parts[2]
            filename == key_parts[5]
            tokens == Split(filename, "_")
        IN  IF Len(tokens) < 2 THEN Raise("IndexError")
            ELSE [exc |-> "none",
                  key |-> [full_path |-> key,
                           csv |-> key_parts[1],
                           module |-> module,
                           form_ver |-> key_parts[3],
                           packet |-> key_parts[4],
                           filename |-> filename,
                           form_name |-> form_name_of(module, tokens)]]
    ELSE IF Len(key_parts) = 4 THEN enroll_key(key, key_parts)
    ELSE Raise("ValueError")

\* A mapping that knows no 'I4' packet.
GetVisitTypeWithoutI4(k) ==
    IF ~Truthy(k.packet) THEN NoneVal
    ELSE IF StartsWith(k.packet, <<"F">>) THEN VisitF
    ELSE VisitI

\* ErrorCheckKey.get_visit_type
get_visit_type(k) ==
    IF ~Truthy(k.packet) THEN NoneVal
    ELSE IF k.packet = PacketI4 THEN VisitI4
    ELSE IF StartsWith(k.packet, <<"F">>) THEN VisitF
    ELSE VisitI

---------------------------------------------------------------------------
(* utils/utils.py: ErrorCheckImportStats *)

\* ErrorCheckImportStats.__init__
NewStats == [total_records |-> 0, all_error_codes |-> <<>>, failed_files |-> <<>>]

\* A tracker that keeps only the last count.
AddToTotalRecordsReplaces(st, num_records) ==
    [st EXCEPT !.total_records = num_records]

\* ErrorCheckImportStats.add_to_total_records
add_to_total_records(st, num_records) ==
    [st EXCEPT !.total_records = @ + num_records]

\* A tracker that loses the failed file.
AddFailedFileDropped(st, failed_file) == st

\* ErrorCheckImportStats.add_failed_file
add_failed_file(st, failed_file) ==
    [st EXCEPT !.failed_files = Append(@, failed_file)]

\* A tracker that appends only the codes it has not seen.
AddErrorCodesDropsDuplicates(st, error_codes) ==
    LET duplicates == SelectSeq(error_codes,
                                LAMBDA code : code \in Range(st.all_error_codes))
        fresh == SelectSeq(error_codes,
                           LAMBDA code : code \notin Range(st.all_error_codes))
    IN  [stats |-> [st EXCEPT !.all_error_codes = @ \o fresh],
         duplicates |-> duplicates]

\* A tracker that appends the codes of a call only when none was seen before.
AddErrorCodesOnlyIfFresh(st, error_codes) ==
    LET duplicates == SelectSeq(error_codes,
                                LAMBDA code : code \in Range(st.all_error_codes))
    IN  [stats |-> IF duplicates = <<>>
                   THEN [st EXCEPT !.all_error_codes = @ \o error_codes]
                   ELSE st,
         duplicates |-> duplicates]

\* ErrorCheckImportStats.add_error_codes: the duplicates are found against the
\* codes tracked before the call, then the whole list is appended.
add_error_codes(st, error_codes) ==
    LET duplicates == SelectSeq(error_codes,
                                LAMBDA code : code \in Range(st.all_error_codes))
    IN  [stats |-> [st EXCEPT !.all_error_codes = @ \o error_codes],
         duplicates |-> duplicates]

---------------------------------------------------------------------------
(* utils/visitor.py: ErrorCheckCSVVisitor *)

REQUIRED_HEADERS == <<"error_code", "error_type", "form_name", "packet",
                      "var_name", "check_type", "test_name", "short_desc",
                      "full_desc", "test_logic", "comp_forms", "comp_vars">>

ALLOWED_EMPTY_FIELDS == <<"comp_forms", "comp_vars">>

\* The key csv.DictReader files surplus cells under (restkey, None by default).
RestKey == "<None>"

\* The name `field` has in visit_row when the loop over row.items() never ran.
Unbound == "<unbound>"

\* A visitor that wants 'packet' in every header.
VisitHeaderWantsPacket(key, header) ==
    LET missing == SelectSeq(REQUIRED_HEADERS, LAMBDA h : h \notin Range(header))
    IN  [valid |-> missing = <<>>, missing |-> missing]

\* ErrorCheckCSVVisitor.visit_header: [valid, missing]; missing lists the logged
\* "Missing expected header" names in order.
visit_header(key, header) ==
    LET missing == SelectSeq(REQUIRED_HEADERS,
                             LAMBDA h : /\ h \notin Range(header)
                                        /\ ~(h = "packet" /\ key.packet = NoneVal))
    IN  [valid |-> missing = <<>>, missing |-> missing]

\* ErrorCheckCSVVisitor.log_row_error: the logged entry (it returns False).
log_row_error(line_num, field, msg) == [line |-> line_num, field |-> field, msg |-> msg]

\* visit_row, the loop over row.items(): the entries logged "cannot be empty".
\* (The field tests come first here; a surplus-cells entry holds a list.)
empty_fields(row) ==
    SelectSeq(row, LAMBDA e : /\ e.f \in Range(REQUIRED_HEADERS)
                              /\ e.f \notin Range(ALLOWED_EMPTY_FIELDS)
                              /\ ~Truthy(e.v))

\* visit_row, the four consistency checks: which of them fail.
failed_checks(key, form_name, error_code, packet) ==
    LET visit_type == get_visit_type(key)
    IN  [form |-> form_name # key.form_name,
         prefix |-> ~StartsWith(error_code, key.form_name),
         visit |-> /\ Truthy(key.packet)
                   /\ Truthy(visit_type)
                   /\ ~Contains(error_code, visit_type),
         packet |-> Truthy(key.packet) /\ packet # key.packet]

\* visit_row: what the failed consistency checks log; each call of
\* log_row_error names `field`, the variable left over from the loop.
check_log(line_num, field, c) ==
    (IF c.form
     THEN <<log_row_error(line_num, field, "does not match expected form name")>>
     ELSE <<>>)
    \o (IF c.prefix
        THEN <<log_row_error(line_num, field, "does not start with expected form name")>>
        ELSE <<>>)
    \o (IF c.visit
        THEN <<log_row_error(line_num, field, "does not have expected visit type")>>
        ELSE <<>>)
    \o (IF c.packet
        THEN <<log_row_error(line_num, field, "does not match expected packet")>>
        ELSE <<>>)

\* A visitor that uploads the row as read.
UploadRowKeepsAll(row) == row

\* The dict comprehension of visit_row: the REQUIRED_HEADERS fields of the row,
\* in REQUIRED_HEADERS order.
upload_row(row) ==
    LET present == SelectSeq(REQUIRED_HEADERS, LAMBDA f : HasField(row, f))
    IN  [i \in 1..Len(present) |-> [f |-> present[i], v |-> Get(row, present[i], NoneVal)]]

\* visit_row, given its loop's findings (empties), the failed checks (c) and
\* whether row.get('error_code', '') is None: [exc, valid, validated, log].
\* log_row_error(line_num, field, ...) raises UnboundLocalError when the loop
\* never bound `field`; None.startswith raises AttributeError.
row_outcome(validated, row, line_num, empties, c, code_is_none) ==
    LET field == IF Len(row) > 0 THEN row[Len(row)].f ELSE Unbound
        log_empty == [i \in 1..Len(empties) |->
                         log_row_error(line_num, empties[i].f, "cannot be empty")]
        valid == Len(empties) = 0 /\ ~c.form /\ ~c.prefix /\ ~c.visit /\ ~c.packet
        raised(e, log) == [exc |-> e, valid |-> FALSE, validated |-> validated, log |-> log]
    IN  IF c.form /\ field = Unbound
        THEN raised("UnboundLocalError", log_empty)
        ELSE IF code_is_none
        THEN raised("AttributeError",
                    IF c.form
                    THEN Append(log_empty,
                                log_row_error(line_num, field,
                                              "does not match expected form name"))
                    ELSE log_empty)
        ELSE IF field = Unbound /\ (c.prefix \/ c.visit \/ c.packet)
        THEN raised("UnboundLocalError", log_empty)
        ELSE [exc |-> "none",
              valid |-> valid,
              validated |-> IF valid THEN Append(validated, upload_row(row)) ELSE validated,
              log |-> log_empty \o check_log(line_num, field, c)]

\* ErrorCheckCSVVisitor.visit_row on a visitor holding `validated`:
\* [exc, valid, validated, log].
visit_row(key, validated, row, line_num) ==
    row_outcome(validated, row, line_num, empty_fields(row),
                failed_checks(key,
                              Get(row, "form_name", EmptyStr),
                              Get(row, "error_code", EmptyStr),
                              Get(row, "packet", EmptyStr)),
                Get(row, "error_code", EmptyStr) = NoneVal)

---------------------------------------------------------------------------
(* utils/visitor.py: read_csv, with csv.DictReader.                        *)
(* A file body is [empty, header, lines]: empty iff the stream holds no    *)
(* character, header the cells of the first row (<<>> when there is none), *)
(* lines the later rows, each [err, cells] (err: the csv module raises     *)
(* csv.Error on reading it).                                               *)

\* The dict csv.DictReader builds from a row: missing cells are None, surplus
\* cells go under the restkey.
DictRow(header, cells) ==
    [i \in 1..Len(header) |->
        [f |-> header[i], v |-> IF i <= Len(cells) THEN cells[i] ELSE NoneVal]]
    \o (IF Len(cells) > Len(header)
        THEN <<[f |-> RestKey, v |-> SubSeq(cells, Len(header) + 1, Len(cells))]>>
        ELSE <<>>)

\* A loop that forgets the result of visit_row.
AfterRowIgnoresResult(acc, r, line_num) ==
    [exc |-> r.exc,
     success |-> acc.success,
     validated |-> r.validated,
     log |-> acc.log \o r.log,
     visits |-> Append(acc.visits, line_num),
     headers |-> acc.headers]

\* read_csv, one turn of the for loop: `success = row_success and success`,
\* with the visitor's records and log after the row (r is visit_row's result).
after_row(acc, r, line_num) ==
    [exc |-> r.exc,
     success |-> r.valid /\ acc.success,
     validated |-> r.validated,
     log |-> acc.log \o r.log,
     visits |-> Append(acc.visits, line_num),
     headers |-> acc.headers]

\* The for loop of read_csv from line i on; acc is [exc, success, validated, log,
\* visits, headers].  A csv.Error ends the loop with False, an exception of
\* visit_row leaves read_csv, DictReader skips a row without cells.
RECURSIVE VisitRows(_, _, _, _, _)
VisitRows(key, header, lines, i, acc) ==
    IF i > Len(lines) \/ acc.exc # "none" THEN acc
    ELSE IF lines[i].err THEN [acc EXCEPT !.success = FALSE]
    ELSE IF Len(lines[i].cells) = 0 THEN VisitRows(key, header, lines, i + 1, acc)
    ELSE VisitRows(key, header, lines, i + 1,
                   after_row(acc,
                             visit_row(key, acc.validated,
                                       DictRow(header, lines[i].cells), i + 1),
                             i + 1))

\* What read_csv yields before any row is visited; headers counts the
\* visit_header calls.
ReadNothing(success, headers) ==
    [exc |-> "none", success |-> success, validated |-> <<>>, log |-> <<>>,
     visits |-> <<>>, headers |-> headers]

\* A reader that visits the rows whatever visit_header said.
ReadCsvIgnoresHeaderCheck(body, key) ==
    IF body.empty THEN ReadNothing(FALSE, 0)
    ELSE IF Len(body.header) = 0 THEN ReadNothing(FALSE, 0)
    ELSE VisitRows(key, body.header, body.lines, 1, ReadNothing(TRUE, 1))

\* read_csv with a fresh visitor for key: [exc, success, validated, log, visits,
\* headers]; visits lists the line numbers visit_row was called with.
read_csv(body, key) ==
    IF body.empty THEN ReadNothing(FALSE, 0)
    ELSE IF Len(body.header) = 0 THEN ReadNothing(FALSE, 0)
    ELSE IF ~visit_header(key, body.header).valid THEN ReadNothing(FALSE, 1)
    ELSE VisitRows(key, body.header, body.lines, 1, ReadNothing(TRUE, 1))

---------------------------------------------------------------------------
(* redcap_api: REDCapConnection.post_request and REDCapProject.import_records. *)
(* A response of the import transport is [kind, count]: "unreachable" (the     *)
(* post fails to connect), "http_error" (response.ok is false), "not_json"     *)
(* (the text is no JSON), "no_count" (JSON without a count), "ok".             *)

\* REDCapProject.import_records: [exc, num_records]
import_records(records, response) ==
    IF response.kind = "unreachable"
    THEN [exc |-> "REDCapConnectionError", num_records |-> 0]
    ELSE IF response.kind = "http_error"
    THEN [exc |-> "REDCapConnectionError", num_records |-> 0]
    ELSE IF response.kind = "not_json"
    THEN [exc |-> "REDCapConnectionError", num_records |-> 0]
    ELSE IF response.kind = "no_count"
    THEN [exc |-> "KeyError", num_records |-> 0]
    ELSE [exc |-> "none", num_records |-> response.count]

---------------------------------------------------------------------------
(* importer.py: REDCapErrorChecksImporter *)

ModAll == <<"a", "l", "l">>

\* A list is truthy when it is not empty.
NonEmpty(l) == Len(l) > 0

\* load_error_check_csv returns None for a failed file and never an empty list,
\* and run only tests `not error_checks`: None is held as the empty list.
NoBatch == <<>>

\* The codes handed to add_error_codes: x['error_code'] of every validated record.
error_codes_of(checks) ==
    [i \in 1..Len(checks) |-> Get(checks[i], "error_code", NoneVal)]

\* load_error_check_csv, a `return None` before the duplicate check.
load_failed(e, why, st) ==
    [exc |-> e, error_checks |-> NoBatch, stats |-> st, reason |-> why,
     codes |-> <<>>, duplicates |-> <<>>, added |-> FALSE]

\* A load that keeps a file whose codes were already seen.
DuplicateCheckIgnored(checks, codes, added) ==
    [exc |-> "none", error_checks |-> checks, stats |-> added.stats,
     reason |-> "ok", codes |-> codes, duplicates |-> added.duplicates,
     added |-> TRUE]

\* load_error_check_csv, lines 116-121: the duplicates add_error_codes returned
\* reject the file; added is add_error_codes's result.
duplicate_check(checks, codes, added) ==
    IF NonEmpty(added.duplicates)
    THEN [exc |-> "none", error_checks |-> NoBatch, stats |-> added.stats,
          reason |-> "duplicate", codes |-> codes, duplicates |-> added.duplicates,
          added |-> TRUE]
    ELSE [exc |-> "none", error_checks |-> checks, stats |-> added.stats,
          reason |-> "ok", codes |-> codes, duplicates |-> <<>>, added |-> TRUE]

\* load_error_check_csv, lines 113-115: add_error_codes on the validated codes.
check_duplicates(checks, codes, st) ==
    duplicate_check(checks, codes, add_error_codes(st, codes))

\* A load without the `if not error_checks` test.
AfterReadSkipsEmptyCheck(r, st) ==
    IF r.exc # "none" THEN load_failed(r.exc, "raised", st)
    ELSE IF ~r.success THEN load_failed("none", "read", st)
    ELSE check_duplicates(r.validated, error_codes_of(r.validated), st)

\* load_error_check_csv after read_csv returned r.
after_read(r, st) ==
    IF r.exc # "none" THEN load_failed(r.exc, "raised", st)
    ELSE IF ~r.success THEN load_failed("none", "read", st)
    ELSE IF ~NonEmpty(r.validated) THEN load_failed("none", "empty", st)
    ELSE check_duplicates(r.validated, error_codes_of(r.validated), st)

\* REDCapErrorChecksImporter.load_error_check_csv:
\* [exc, error_checks, stats, reason, codes, duplicates, added]; reason names the
\* return statement taken ("read", "empty", "duplicate", "ok"; "raised" when an
\* exception leaves it), added tells whether add_error_codes was called (with
\* codes, returning duplicates).
load_error_check_csv(key, body, st) == after_read(read_csv(body, key), st)

NoResponse == [kind |-> "none", count |-> 0]

\* An import that logs a failure of import_records and carries on.
ImportSwallowsError(st, dry, r) ==
    IF dry THEN [exc |-> "none", stats |-> st, called |-> FALSE]
    ELSE IF r.exc # "none" THEN [exc |-> "none", stats |-> st, called |-> TRUE]
    ELSE [exc |-> "none", stats |-> add_to_total_records(st, r.num_records),
          called |-> TRUE]

\* An import that calls import_records whatever dry_run says.
ImportIgnoresDryRun(st, dry, r) ==
    IF r.exc = "REDCapConnectionError"
    THEN [exc |-> "RuntimeException", stats |-> st, called |-> TRUE]
    ELSE IF r.exc # "none" THEN [exc |-> r.exc, stats |-> st, called |-> TRUE]
    ELSE [exc |-> "none", stats |-> add_to_total_records(st, r.num_records),
          called |-> TRUE]

\* import_to_redcap, given import_records's result r (not called in a dry run):
\* [exc, stats, called]; called tells whether import_records is called.
imported(st, dry, r) ==
    IF dry THEN [exc |-> "none", stats |-> st, called |-> FALSE]
    ELSE IF r.exc = "REDCapConnectionError"
    THEN [exc |-> "RuntimeException", stats |-> st, called |-> TRUE]
    ELSE IF r.exc # "none" THEN [exc |-> r.exc, stats |-> st, called |-> TRUE]
    ELSE [exc |-> "none", stats |-> add_to_total_records(st, r.num_records),
          called |-> TRUE]

\* REDCapErrorChecksImporter.import_to_redcap, given the transport's response.
import_to_redcap(st, checks, dry, response) ==
    imported(st, dry, import_records(checks, response))

\* run: `if not key or not key.endswith('.csv'): continue`
skips_key(key) == ~Truthy(key) \/ ~EndsWith(key, CsvSuffix)

\* A loop without module filter.
FilterIgnored(mods, k) == FALSE

\* run: `if self.__modules != ['all'] and error_key.module not in self.__modules: continue`
filters_module(mods, k) == mods # <<ModAll>> /\ k.module \notin Range(mods)

Running == [kind |-> "running", exc |-> "none", at |-> "none", report |-> <<>>]

Raised(e, where) == [kind |-> "raised", exc |-> e, at |-> where, report |-> <<>>]

Returned(where) == [kind |-> "returned", exc |-> "none", at |-> where, report |-> <<>>]

\* run: `continue`
NextKey == [pc |-> "loop", outcome |-> Running, error_key |-> NoKey]

\* A loop that skips a key create_from_key rejects.
KeyStepSkipsUnparsable(key, parsed, mods) ==
    IF skips_key(key) THEN NextKey
    ELSE IF parsed.exc # "none" THEN NextKey
    ELSE IF filters_module(mods, parsed.key) THEN NextKey
    ELSE [pc |-> "load", outcome |-> Running, error_key |-> parsed.key]

\* run, lines 151-158, for one key of the listing; parsed is what
\* create_from_key gives for it (called only for a key that is not skipped):
\* an exception of create_from_key leaves run.
key_step(key, parsed, mods) ==
    IF skips_key(key) THEN NextKey
    ELSE IF parsed.exc # "none"
    THEN [pc |-> "done", outcome |-> Raised(parsed.exc, "parse"), error_key |-> NoKey]
    ELSE IF filters_module(mods, parsed.key) THEN NextKey
    ELSE [pc |-> "load", outcome |-> Running, error_key |-> parsed.key]

\* A loop that records a failed file and continues whatever fail_fast says.
OnFailedFileNeverHalts(st, key, ff) ==
    [halt |-> FALSE, stats |-> add_failed_file(st, key)]

\* A loop that returns at the first failed file whatever fail_fast says.
OnFailedFileAlwaysHalts(st, key, ff) == [halt |-> TRUE, stats |-> st]

\* run: the body of `if not error_checks:`; halt is the return under fail_fast.
on_failed_file(st, key, ff) ==
    IF ff THEN [halt |-> TRUE, stats |-> st]
    ELSE [halt |-> FALSE, stats |-> add_failed_file(st, key)]

\* An end of run that returns whatever files failed.
FinishNeverFails(st) == Returned("end")

\* An end of run that reports only the last failed file.
FinishReportsLast(st) ==
    IF NonEmpty(st.failed_files)
    THEN [kind |-> "raised", exc |-> "RuntimeException", at |-> "end",
          report |-> <<st.failed_files[Len(st.failed_files)]>>]
    ELSE Returned("end")

\* run after the loop: `if self.__stats.failed_files: raise RuntimeException(...)`;
\* report is the list of keys joined into the message.
finish(st) ==
    IF NonEmpty(st.failed_files)
    THEN [kind |-> "raised", exc |-> "RuntimeException", at |-> "end",
          report |-> st.failed_files]
    ELSE Returned("end")

\* entrypoint: `importer.run()` is the last statement and sits in no try, so the
\* process exits with 0 when run returns and with 1 (the interpreter's status
\* for an uncaught exception) when run raises; o is run's outcome.
exit_status(o) == IF o.kind = "raised" THEN 1 ELSE 0

---------------------------------------------------------------------------
(* The inputs: the keys a listing can hold, the file bodies the object     *)
(* store can return, the responses of the import transport.                *)

KeyUdsV3 == <<"C", "S", "V", "/", "U", "D", "S", "/", "3", "/", "I", "/", "f", "_", "d", "1", "a", "_", "m", ".", "c", "s", "v">>

KeyUdsV4 == <<"C", "S", "V", "/", "U", "D", "S", "/", "4", "/", "I", "/", "f", "_", "d", "1", "a", "_", "m", ".", "c", "s", "v">>

KeyLbdV3 == <<"C", "S", "V", "/", "L", "B", "D", "/", "3", "/", "I", "/", "f", "_", "d", "1", "a", "_", "m", ".", "c", "s", "v">>

KeyReadme == <<"C", "S", "V", "/", "U", "D", "S", "/", "3", "/", "I", "/", "f", "_", "d", "1", "a", "_", "m", ".", "t", "x", "t">>

KeyShort == <<"C", "S", "V", "/", "b", "a", "d", "/", "k", ".", "c", "s", "v">>

KeyPool == {KeyUdsV3, KeyUdsV4, KeyLbdV3, KeyReadme, KeyShort}

ModUds == <<"U", "D", "S">>

ModulesPool == {<<ModAll>>, <<ModUds>>}

CodeX == <<"d", "1", "a", "-", "i", "v", "p", "-", "1">>

CodeY == <<"d", "1", "a", "-", "i", "v", "p", "-", "2">>

CodeZ == <<"d", "1", "a", "-", "i", "v", "p", "-", "3">>

FormD1a == <<"d", "1", "a">>

Val == <<"v">>

FullHeader == REQUIRED_HEADERS \o <<"error_no">>

\* The required columns with error_code as the last one.
HeaderCodeLast == Tail(REQUIRED_HEADERS) \o <<"error_code">>

\* The required columns without test_logic.
HeaderMissing == SelectSeq(REQUIRED_HEADERS, LAMBDA h : h # "test_logic")

\* A row of form d1a, packet I, in FullHeader order.
GoodCells(code) ==
    <<code, Val, FormD1a, <<"I">>, Val, Val, Val, Val, Val, Val, <<>>, <<>>, <<"1">>>>

\* The same row with an empty var_name.
BadCells(code) == [GoodCells(code) EXCEPT ![5] = <<>>]

\* A line of three cells under HeaderCodeLast: every later column, error_code
\* included, is None.
ShortCells == <<Val, FormD1a, <<"I">>>>

Line(cells) == [err |-> FALSE, cells |-> cells]

ErrLine == [err |-> TRUE, cells |-> <<>>]

Body(header, lines) == [empty |-> FALSE, header |-> header, lines |-> lines]

BodyX == Body(FullHeader, <<Line(GoodCells(CodeX))>>)

BodyXY == Body(FullHeader, <<Line(GoodCells(CodeX)), Line(GoodCells(CodeY))>>)

BodyYZ == Body(FullHeader, <<Line(GoodCells(CodeY)), Line(GoodCells(CodeZ))>>)

BodyXX == Body(FullHeader, <<Line(GoodCells(CodeX)), Line(GoodCells(CodeX))>>)

BodyBadRow == Body(FullHeader, <<Line(GoodCells(CodeZ)), Line(BadCells(CodeY))>>)

BodyHeaderOnly == Body(FullHeader, <<>>)

BodyEmpty == [empty |-> TRUE, header |-> <<>>, lines |-> <<>>]

BodyMissingHeader == Body(HeaderMissing, <<Line(GoodCells(CodeX))>>)

BodyShort == Body(HeaderCodeLast, <<Line(ShortCells)>>)

BodyCsvError == Body(FullHeader, <<Line(GoodCells(CodeZ)), ErrLine>>)

BodyPool == {BodyX, BodyXY, BodyYZ, BodyXX, BodyBadRow, BodyHeaderOnly, BodyEmpty,
             BodyMissingHeader, BodyShort, BodyCsvError}

Responses(checks) ==
    {[kind |-> k, count |-> 0] : k \in {"unreachable", "http_error", "not_json", "no_count"}}
    \cup {[kind |-> "ok", count |-> n] : n \in {0, Len(checks)}}

StatsCodePool == {CodeX, CodeY}

CodeLists == UNION {[1..n -> StatsCodePool] : n \in 0..MaxCodes}

---------------------------------------------------------------------------
(* REDCapErrorChecksImporter.run as a state machine.  The steps end where  *)
(* run waits for a collaborator: the object store's get_object and the     *)
(* import transport.                                                       *)

\* No call under study: the value of subject in Spec and SpecStats.
NoSubject == [op |-> "none"]

\* After __init__: a fresh stats object, the flags as given, the listing not yet walked.
Init ==
    /\ fail_fast \in BOOLEAN
    /\ dry_run \in BOOLEAN
    /\ modules \in ModulesPool
    /\ nfiles \in 0..MaxFiles
    /\ stats = NewStats
    /\ listed = <<>>
    /\ pc = "loop"
    /\ error_key = NoKey
    /\ error_checks = NoBatch
    /\ outcome = Running
    /\ files = <<>>
    /\ transport = <<>>
    /\ calls = <<>>
    /\ subject = NoSubject

\* run, lines 149-158: the next key of the listing: skipped, unparsable,
\* filtered out, or handed to get_object.
ListKey ==
    /\ pc = "loop"
    /\ Len(listed) < nfiles
    /\ \E key \in KeyPool \ Range(listed) :
        LET step == key_step(key, create_from_key(key), modules) IN
        /\ listed' = Append(listed, key)
        /\ pc' = step.pc
        /\ outcome' = step.outcome
        /\ error_key' = step.error_key
    /\ UNCHANGED <<fail_fast, dry_run, modules, stats, nfiles, error_checks,
                   files, transport, calls>>
    /\ UNCHANGED subject

\* run, line 161: get_object fails; the exception leaves run.
GetObjectFails ==
    /\ pc = "load"
    /\ pc' = "done"
    /\ outcome' = Raised("ClientError", "get_object")
    /\ UNCHANGED <<fail_fast, dry_run, modules, stats, nfiles, listed, error_key,
                   error_checks, files, transport, calls>>
    /\ UNCHANGED subject

\* run, lines 164-176, once load_error_check_csv gave r for the body.
Loaded(body, r) ==
    LET key == error_key.full_path
        onfail == on_failed_file(r.stats, key, fail_fast)
        imp == import_to_redcap(r.stats, r.error_checks, dry_run, NoResponse)
    IN
    /\ files' = Append(files, [key |-> key, body |-> body, reason |-> r.reason,
                               codes |-> r.codes])
    /\ calls' = IF r.added
                THEN Append(calls, [codes |-> r.codes,
                                    before |-> stats.all_error_codes,
                                    duplicates |-> r.duplicates])
                ELSE calls
    /\ IF r.exc # "none"
       THEN /\ pc' = "done"
            /\ outcome' = Raised(r.exc, "load")
            /\ UNCHANGED <<stats, error_key, error_checks>>
       ELSE IF ~NonEmpty(r.error_checks)
       THEN /\ stats' = onfail.stats
            /\ pc' = IF onfail.halt THEN "done" ELSE "loop"
            /\ outcome' = IF onfail.halt THEN Returned("fail_fast") ELSE outcome
            /\ error_key' = IF onfail.halt THEN error_key ELSE NoKey
            /\ UNCHANGED error_checks
       ELSE IF ~imp.called
       THEN /\ stats' = imp.stats
            /\ pc' = "loop"
            /\ error_key' = NoKey
            /\ UNCHANGED <<outcome, error_checks>>
       ELSE /\ stats' = r.stats
            /\ pc' = "import"
            /\ error_checks' = r.error_checks
            /\ UNCHANGED <<outcome, error_key>>

\* run, lines 161-176: get_object returns a body; load_error_check_csv; a failed
\* file halts or is recorded; a batch goes to import_to_redcap, which in a dry
\* run returns at once and otherwise calls the transport.
LoadFile ==
    /\ pc = "load"
    /\ \E body \in BodyPool : Loaded(body, load_error_check_csv(error_key, body, stats))
    /\ UNCHANGED <<fail_fast, dry_run, modules, nfiles, listed, transport>>
    /\ UNCHANGED subject

\* import_to_redcap, lines 134-140: the transport answers the import_records call.
Import ==
    /\ pc = "import"
    /\ \E response \in Responses(error_checks) :
        LET imp == import_to_redcap(stats, error_checks, dry_run, response) IN
        /\ transport' = Append(transport, [key |-> error_key.full_path,
                                           records |-> error_checks,
                                           response |-> response])
        /\ IF imp.exc # "none"
           THEN /\ pc' = "done"
                /\ outcome' = Raised(imp.exc, "import")
                /\ UNCHANGED <<stats, error_key, error_checks>>
           ELSE /\ stats' = imp.stats
                /\ pc' = "loop"
                /\ error_key' = NoKey
                /\ error_checks' = NoBatch
                /\ UNCHANGED outcome
    /\ UNCHANGED <<fail_fast, dry_run, modules, nfiles, listed, files, calls>>
    /\ UNCHANGED subject

\* run, lines 178-188: the listing is exhausted.
Finish ==
    /\ pc = "loop"
    /\ Len(listed) = nfiles
    /\ pc' = "done"
    /\ outcome' = finish(stats)
    /\ UNCHANGED <<fail_fast, dry_run, modules, stats, nfiles, listed, error_key,
                   error_checks, files, transport, calls>>
    /\ UNCHANGED subject

Next == ListKey \/ GetObjectFails \/ LoadFile \/ Import \/ Finish

Spec == Init /\ [][Next]_vars

---------------------------------------------------------------------------
(* ErrorCheckImportStats on its own: any sequence of add_error_codes calls. *)

InitStats ==
    /\ fail_fast = FALSE
    /\ dry_run = FALSE
    /\ modules = <<ModAll>>
    /\ nfiles = 0
    /\ stats = NewStats
    /\ listed = <<>>
    /\ pc = "stats"
    /\ error_key = NoKey
    /\ error_checks = NoBatch
    /\ outcome = Running
    /\ files = <<>>
    /\ transport = <<>>
    /\ calls = <<>>
    /\ subject = NoSubject

\* A caller calls stats.add_error_codes(error_codes).
StatsAddErrorCodes ==
    /\ pc = "stats"
    /\ Len(calls) < MaxCalls
    /\ \E error_codes \in CodeLists :
        LET r == add_error_codes(stats, error_codes) IN
        /\ stats' = r.stats
        /\ calls' = Append(calls, [codes |-> error_codes,
                                   before |-> stats.all_error_codes,
                                   duplicates |-> r.duplicates])
    /\ UNCHANGED <<fail_fast, dry_run, modules, nfiles, listed, pc, error_key,
                   error_checks, outcome, files, transport>>
    /\ UNCHANGED subject

NextStats == StatsAddErrorCodes

SpecStats == InitStats /\ [][NextStats]_vars

---------------------------------------------------------------------------
(* ErrorCheckKey on its own: a key is given, create_from_key parses it,    *)
(* get_visit_type is asked of the parsed key.  subject is                  *)
(* [op, segments, key, parsed, visit_type]: segments are the parts the key *)
(* string was written from, key the string itself.                         *)

\* '/'.join(segments): the key string.
RECURSIVE Join(_, _)
Join(ss, sep) ==
    IF Len(ss) = 0 THEN <<>>
    ELSE IF Len(ss) = 1 THEN ss[1]
    ELSE ss[1] \o <<sep>> \o Join(Tail(ss), sep)

Json == <<"J", "S", "O", "N">>

ModMixed == <<"L", "b", "d">>

Ver3 == <<"3">>

FileD1a == <<"f", "_", "d", "1", "a", "_", "m", ".", "c", "s", "v">>

FileHeader == <<"f", "_", "h", "e", "a", "d", "e", "r", "_", "m", ".", "c", "s", "v">>

FilePlain == <<"p", "l", "a", "i", "n", ".", "c", "s", "v">>

\* The values tried for the i-th segment of a key.
SegmentPool(i) ==
    IF i = 1 THEN {CsvMarker, Json, <<>>}
    ELSE IF i = 2 THEN {ModUds, Enroll, ModMixed}
    ELSE IF i = 3 THEN {Ver3}
    ELSE IF i = 4 THEN {<<"I">>, PacketI4, <<"F">>, <<"F", "L">>, <<"I", "F">>, <<>>, FileD1a}
    ELSE IF i = 5 THEN {FileD1a, FileHeader, FilePlain}
    ELSE {<<"x">>}

\* The segment lists of n segments.
RECURSIVE SegmentLists(_)
SegmentLists(n) ==
    IF n = 0 THEN {<<>>}
    ELSE {Append(ss, x) : ss \in SegmentLists(n - 1), x \in SegmentPool(n)}

\* subject before any call: the key as given.
GivenKey(segments) ==
    [op |-> "given", segments |-> segments, key |-> Join(segments, "/"),
     parsed |-> Raise("not called"), visit_type |-> NoneVal]

InitKey ==
    /\ fail_fast = FALSE
    /\ dry_run = FALSE
    /\ modules = <<ModAll>>
    /\ nfiles = 0
    /\ stats = NewStats
    /\ listed = <<>>
    /\ pc = "key"
    /\ error_key = NoKey
    /\ error_checks = NoBatch
    /\ outcome = Running
    /\ files = <<>>
    /\ transport = <<>>
    /\ calls = <<>>
    /\ \E n \in 1..MaxSegments : \E segments \in SegmentLists(n) :
          subject = GivenKey(segments)

\* ErrorCheckKey.create_from_key(key): returns a key or raises.
CreateFromKey ==
    /\ pc = "key"
    /\ subject' = [subject EXCEPT !.op = "create_from_key",
                                  !.parsed = create_from_key(subject.key)]
    /\ pc' = IF subject'.parsed.exc = "none" THEN "parsed" ELSE "done"
    /\ UNCHANGED <<fail_fast, dry_run, modules, stats, nfiles, listed, error_key,
                   error_checks, outcome, files, transport, calls>>

\* key.get_visit_type() on the key create_from_key returned.
GetVisitType ==
    /\ pc = "parsed"
    /\ subject' = [subject EXCEPT !.op = "get_visit_type",
                                  !.visit_type = get_visit_type(subject.parsed.key)]
    /\ pc' = "done"
    /\ UNCHANGED <<fail_fast, dry_run, modules, stats, nfiles, listed, error_key,
                   error_checks, outcome, files, transport, calls>>

NextKeyCall == CreateFromKey \/ GetVisitType

SpecKey == InitKey /\ [][NextKeyCall]_vars

---------------------------------------------------------------------------
(* ErrorCheckCSVVisitor on its own: a visitor is built for a key, holding  *)
(* the records of earlier rows; visit_header is called with a header, then *)
(* visit_row with a row.  subject is [op, key, validated, header,          *)
(* header_result, row, row_result]; validated is the list before the row.  *)

\* The keys the visitors are built for: packets I, F and I4, an empty packet
\* segment, and the enrollment form.
VisitorKeys ==
    {create_from_key(Join(segments, "/")).key :
        segments \in {<<CsvMarker, ModUds, Ver3, <<"I">>, FileD1a>>,
                      <<CsvMarker, ModUds, Ver3, <<"F">>, FileD1a>>,
                      <<CsvMarker, ModUds, Ver3, PacketI4, FileD1a>>,
                      <<CsvMarker, ModUds, Ver3, <<>>, FileD1a>>,
                      <<CsvMarker, Enroll, Ver3, FileD1a>>}}

\* A record validated from an earlier row of the file.
PriorRecord == <<[f |-> "error_code", v |-> CodeZ], [f |-> "form_name", v |-> FormD1a]>>

\* What the visitor holds when the row is visited.
ValidatedPool == {<<>>, <<PriorRecord>>}

\* REQUIRED_HEADERS without 'packet', the header of an enrollment file.
HeaderNoPacket == SelectSeq(REQUIRED_HEADERS, LAMBDA h : h # "packet")

\* The headers given to visit_header.
HeaderPool ==
    {REQUIRED_HEADERS, FullHeader, HeaderNoPacket, HeaderNoPacket \o <<"error_no">>,
     HeaderMissing, HeaderCodeLast, <<"error_no">>, <<>>}

\* Marks a column the row does not have.
AbsentVal == <<"<absent>">>

\* A row dict in the column order of the files; a column given AbsentVal is left out.
RowOf(error_code, form_name, packet, var_name, comp, error_no) ==
    SelectSeq(<<[f |-> "error_code", v |-> error_code],
                [f |-> "error_type", v |-> Val],
                [f |-> "form_name", v |-> form_name],
                [f |-> "packet", v |-> packet],
                [f |-> "var_name", v |-> var_name],
                [f |-> "check_type", v |-> Val],
                [f |-> "test_name", v |-> Val],
                [f |-> "short_desc", v |-> Val],
                [f |-> "full_desc", v |-> Val],
                [f |-> "test_logic", v |-> Val],
                [f |-> "comp_forms", v |-> comp],
                [f |-> "comp_vars", v |-> comp],
                [f |-> "error_no", v |-> error_no]>>,
              LAMBDA e : e.v # AbsentVal)

CodeF == <<"d", "1", "a", "-", "f", "v", "p", "-", "1">>

CodeI4 == <<"d", "1", "a", "-", "i", "4", "v", "p", "-", "1">>

CodeEnrl == <<"e", "n", "r", "l", "-", "i", "v", "p", "-", "1">>

CodeOther == <<"x", "-", "i", "v", "p", "-", "1">>

\* The rows given to visit_row: every combination of the values below, and
\* the empty dict.
RowPool ==
    {RowOf(error_code, form_name, packet, var_name, comp, error_no) :
        error_code \in {CodeX, CodeF, CodeI4, CodeEnrl, CodeOther, EmptyStr, NoneVal, AbsentVal},
        form_name \in {FormD1a, Enrl, EmptyStr, AbsentVal},
        packet \in {<<"I">>, <<"F">>, PacketI4, EmptyStr, NoneVal, AbsentVal},
        var_name \in {Val, EmptyStr, NoneVal},
        comp \in {Val, EmptyStr},
        error_no \in {Val, EmptyStr, AbsentVal}}
    \cup {<<>>}

\* visit_row was not called.
NoRowResult == [exc |-> "not called", valid |-> FALSE, validated |-> <<>>, log |-> <<>>]

\* ErrorCheckCSVVisitor(key=key), with the records of earlier rows.
NewVisitor(key, validated) ==
    [op |-> "new", key |-> key, validated |-> validated, header |-> <<>>,
     header_result |-> [valid |-> FALSE, missing |-> <<>>], row |-> <<>>,
     row_result |-> NoRowResult]

InitVisitor ==
    /\ fail_fast = FALSE
    /\ dry_run = FALSE
    /\ modules = <<ModAll>>
    /\ nfiles = 0
    /\ stats = NewStats
    /\ listed = <<>>
    /\ pc = "visitor"
    /\ error_key = NoKey
    /\ error_checks = NoBatch
    /\ outcome = Running
    /\ files = <<>>
    /\ transport = <<>>
    /\ calls = <<>>
    /\ \E key \in VisitorKeys : \E validated \in ValidatedPool :
          subject = NewVisitor(key, validated)

\* visitor.visit_header(header)
VisitHeader ==
    /\ pc = "visitor"
    /\ \E header \in HeaderPool :
          subject' = [subject EXCEPT !.op = "visit_header",
                                     !.header = header,
                                     !.header_result = visit_header(subject.key, header)]
    /\ pc' = "rows"
    /\ UNCHANGED <<fail_fast, dry_run, modules, stats, nfiles, listed, error_key,
                   error_checks, outcome, files, transport, calls>>

\* visitor.visit_row(row, 1)
VisitRow ==
    /\ pc = "rows"
    /\ \E row \in RowPool :
          subject' = [subject EXCEPT !.op = "visit_row",
                                     !.row = row,
                                     !.row_result = visit_row(subject.key,
                                                              subject.validated, row, 1)]
    /\ pc' = "done"
    /\ UNCHANGED <<fail_fast, dry_run, modules, stats, nfiles, listed, error_key,
                   error_checks, outcome, files, transport, calls>>

NextVisitorCall == VisitHeader \/ VisitRow

SpecVisitor == InitVisitor /\ [][NextVisitorCall]_vars

---------------------------------------------------------------------------
(* read_csv on its own: a stream and a fresh visitor for a key are given,  *)
(* read_csv is called.  subject is [op, key, body, result].                *)

\* The lines a file can hold after its header: valid rows, a row with an
\* empty required field, a line shorter than the header, a line the csv
\* module fails on, a blank line.
LinePool ==
    {Line(GoodCells(CodeX)), Line(GoodCells(CodeY)), Line(BadCells(CodeY)),
     Line(ShortCells), ErrLine, Line(<<>>)}

\* The sequences of n lines.
RECURSIVE LineLists(_)
LineLists(n) ==
    IF n = 0 THEN {<<>>}
    ELSE {Append(ls, l) : ls \in LineLists(n - 1), l \in LinePool}

\* A stream of blank lines only: it is not empty and DictReader finds no header.
BodyNoHeader == [empty |-> FALSE, header |-> <<>>, lines |-> <<>>]

\* The streams given to read_csv.
StreamPool ==
    {BodyEmpty, BodyNoHeader}
    \cup {Body(header, lines) :
            header \in {FullHeader, HeaderCodeLast, HeaderMissing},
            lines \in UNION {LineLists(n) : n \in 0..MaxLines}}

\* The keys of the visitors given to read_csv.
ReadKeys ==
    {create_from_key(Join(segments, "/")).key :
        segments \in {<<CsvMarker, ModUds, Ver3, <<"I">>, FileD1a>>,
                      <<CsvMarker, ModUds, Ver3, <<"F">>, FileD1a>>}}

InitRead ==
    /\ fail_fast = FALSE
    /\ dry_run = FALSE
    /\ modules = <<ModAll>>
    /\ nfiles = 0
    /\ stats = NewStats
    /\ listed = <<>>
    /\ pc = "read"
    /\ error_key = NoKey
    /\ error_checks = NoBatch
    /\ outcome = Running
    /\ files = <<>>
    /\ transport = <<>>
    /\ calls = <<>>
    /\ \E key \in ReadKeys : \E body \in StreamPool :
          subject = [op |-> "given", key |-> key, body |-> body,
                     result |-> ReadNothing(FALSE, 0)]

\* read_csv(input_file=data, visitor=ErrorCheckCSVVisitor(key=key))
ReadCsv ==
    /\ pc = "read"
    /\ subject' = [subject EXCEPT !.op = "read_csv",
                                  !.result = read_csv(subject.body, subject.key)]
    /\ pc' = "done"
    /\ UNCHANGED <<fail_fast, dry_run, modules, stats, nfiles, listed, error_key,
                   error_checks, outcome, files, transport, calls>>

NextRead == ReadCsv

SpecRead == InitRead /\ [][NextRead]_vars

---------------------------------------------------------------------------
(* Vocabulary of the properties. *)

\* File i of the history failed: CSV validation failed ("read"), it yielded no
\* records ("empty"), or the duplicate check rejected it ("duplicate").
Failed(i) == files[i].reason \in {"read", "empty", "duplicate"}

SomeFileFailed == \E i \in 1..Len(files) : Failed(i)

KeysOf(recs) == [i \in 1..Len(recs) |-> recs[i].key]

\* The keys of the failed files, in processing order.
FailedKeys == KeysOf(SelectSeq(files, LAMBDA f : f.reason \in {"read", "empty", "duplicate"}))

\* The keys whose batch was handed to the import transport.
SentKeys == Range(KeysOf(transport))

\* The error codes of the records handed to the transport in call t.
SentCodes(t) == Range(error_codes_of(transport[t].records))

Distinct(s) == \A i, j \in 1..Len(s) : i # j => s[i] # s[j]

\* The counts the transport returned for the batches it accepted.
ReturnedCounts ==
    [t \in 1..Len(transport) |->
        IF transport[t].response.kind = "ok" THEN transport[t].response.count ELSE 0]

---------------------------------------------------------------------------
(* C1 *)

\* C1: in a run with fail-fast, once a file has failed (validation, no
\* records, or duplicates), no step loads or validates another file, calls
\* the import transport, or reaches another key of the listing: run has ended.
C1_FailFastHalts ==
    [][(fail_fast /\ SomeFileFailed)
        => (files' = files /\ transport' = transport /\ listed' = listed
            /\ pc = "done" /\ pc' = "done")]_vars

\* A fail-fast run halted by a failed file while the listing holds more keys.
C1_Witness ==
    /\ fail_fast
    /\ SomeFileFailed
    /\ pc = "done"
    /\ Len(listed) < nfiles
    /\ Len(files) >= 2

---------------------------------------------------------------------------
(* C2 *)

\* C2 as stated: every failed file's key is in the failed-file list, whatever
\* the fail-fast flag.
C2_FailedAlwaysRecorded ==
    \A i \in 1..Len(files) :
        Failed(i) => files[i].key \in Range(stats.failed_files)

\* C2, amended: a failed file's key is recorded in the failed-file list exactly
\* when the run is not fail-fast; with fail-fast the run halts without
\* recording it and the list stays empty.
C2_FailedRecordedUnlessFailFast ==
    /\ \A i \in 1..Len(files) :
          Failed(i) => (files[i].key \in Range(stats.failed_files) <=> ~fail_fast)
    /\ fail_fast => stats.failed_files = <<>>

\* A run without fail-fast that recorded a failed file and went on to another.
C2_Witness ==
    /\ ~fail_fast
    /\ Len(files) >= 2
    /\ Failed(1)
    /\ files[1].key \in Range(stats.failed_files)

---------------------------------------------------------------------------
(* C3 *)

\* C3: a run without fail-fast that gets past its last file raises iff some
\* file failed, and its report lists the keys of the failed files, each once,
\* in processing order.
C3_AggregateFailure ==
    (~fail_fast /\ outcome.at = "end")
        => /\ pc = "done"
           /\ (outcome.kind = "raised" <=> SomeFileFailed)
           /\ (outcome.kind = "returned" <=> ~SomeFileFailed)
           /\ outcome.report = FailedKeys
           /\ Distinct(outcome.report)

\* The aggregate failure of a run in which two files failed and one was imported.
C3_Witness ==
    /\ ~fail_fast
    /\ outcome.at = "end"
    /\ outcome.kind = "raised"
    /\ Len(outcome.report) = 2
    /\ Len(transport) = 1

---------------------------------------------------------------------------
(* C4 *)

\* C4: a file whose validated codes share a code with the codes an earlier
\* file of the run put into the stats is rejected and none of its records
\* reaches the transport; no code is handed to the transport by two files.
C4_NoCodeImportedTwice ==
    /\ \A j \in 1..Len(files) :
          (\E i \in 1..(j - 1) : Range(files[i].codes) \cap Range(files[j].codes) # {})
              => /\ files[j].reason = "duplicate"
                 /\ files[j].key \notin SentKeys
    /\ \A t, u \in 1..Len(transport) :
          t # u => SentCodes(t) \cap SentCodes(u) = {}

\* A file rejected for a code that an earlier, imported file brought.
C4_Witness ==
    \E j \in 1..Len(files) : \E i \in 1..(j - 1) :
        /\ files[j].reason = "duplicate"
        /\ files[i].key \in SentKeys
        /\ Range(files[i].codes) \cap Range(files[j].codes) # {}
        /\ Len(files[j].codes) = 2

---------------------------------------------------------------------------
(* C5 *)

\* C5: every call of add_error_codes returns each code of the call that equals
\* a code tracked before the call or an earlier entry of the same call.
C5_ReportsEveryRepeat ==
    \A c \in 1..Len(calls) :
        \A i \in 1..Len(calls[c].codes) :
            (\/ calls[c].codes[i] \in Range(calls[c].before)
             \/ \E j \in 1..(i - 1) : calls[c].codes[j] = calls[c].codes[i])
                => calls[c].codes[i] \in Range(calls[c].duplicates)

---------------------------------------------------------------------------
(* C6 *)

\* C6: after any sequence of add_error_codes calls the tracked collection is
\* the concatenation of the lists passed (repeats included, so its length is
\* the number of codes passed), and each call returns the codes of that call
\* that were tracked before it, in order.
C6_TracksEveryCode ==
    /\ stats.all_error_codes = Concat([c \in 1..Len(calls) |-> calls[c].codes])
    /\ Len(stats.all_error_codes) = SumSeq([c \in 1..Len(calls) |-> Len(calls[c].codes)])
    /\ \A c \in 1..Len(calls) :
          /\ calls[c].before = Concat([d \in 1..(c - 1) |-> calls[d].codes])
          /\ calls[c].duplicates =
                SelectSeq(calls[c].codes, LAMBDA code : code \in Range(calls[c].before))

\* The same two codes added twice: four codes tracked, the second call
\* returns both.
C6_Witness ==
    /\ Len(calls) = 2
    /\ calls[1].codes = <<CodeX, CodeY>>
    /\ calls[2].codes = <<CodeX, CodeY>>
    /\ calls[1].duplicates = <<>>
    /\ calls[2].duplicates = <<CodeX, CodeY>>
    /\ Len(stats.all_error_codes) = 4

---------------------------------------------------------------------------
(* C7 *)

\* The stats of a run that is not a dry run and whose transport accepts every
\* batch, after the files fs (from stats st): total_records aside.
RECURSIVE NormalStats(_, _, _)
NormalStats(fs, st, ff) ==
    IF fs = <<>> THEN st
    ELSE LET r == load_error_check_csv(create_from_key(Head(fs).key).key, Head(fs).body, st)
         IN  NormalStats(Tail(fs),
                         IF r.reason = "ok" THEN r.stats
                         ELSE on_failed_file(r.stats, Head(fs).key, ff).stats,
                         ff)

\* The verdict load_error_check_csv gives file i after the files before it.
NormalReason(i) ==
    load_error_check_csv(create_from_key(files[i].key).key, files[i].body,
                         NormalStats(SubSeq(files, 1, i - 1), NewStats, fail_fast)).reason

\* C7: in a dry run the transport is never called and the running total stays
\* 0, while each file's verdict, the tracked codes, the failed-file list and
\* the fail-fast halt are those of a normal run over the same files.
C7_DryRunImportsNothing ==
    dry_run
        => /\ transport = <<>>
           /\ pc # "import"
           /\ stats.total_records = 0
           /\ \A i \in 1..Len(files) :
                 files[i].reason # "raised" => files[i].reason = NormalReason(i)
           /\ (outcome.at # "load") =>
                 /\ stats.all_error_codes =
                       NormalStats(files, NewStats, fail_fast).all_error_codes
                 /\ stats.failed_files =
                       NormalStats(files, NewStats, fail_fast).failed_files
           /\ (fail_fast /\ SomeFileFailed) => pc = "done"

\* A dry run that validated a batch (import skipped), then rejected a
\* duplicate file, and ended.
C7_Witness ==
    /\ dry_run
    /\ pc = "done"
    /\ Len(files) >= 2
    /\ files[1].reason = "ok"
    /\ files[2].reason = "duplicate"

---------------------------------------------------------------------------
(* C8 *)

\* C8: once the transport has answered an import with a failure, run has ended
\* by raising from import_to_redcap: that call is the last one (no retry, no
\* later import), its file is the last one loaded and the last key reached, and
\* the running total is the sum of the counts of the accepted batches only.
C8_TransportFailureIsFatal ==
    \A t \in 1..Len(transport) :
        transport[t].response.kind # "ok"
            => /\ t = Len(transport)
               /\ pc = "done"
               /\ outcome.kind = "raised"
               /\ outcome.at = "import"
               /\ Distinct(KeysOf(transport))
               /\ files[Len(files)].key = transport[t].key
               /\ listed[Len(listed)] = transport[t].key
               /\ stats.total_records = SumSeq(ReturnedCounts)

\* The transport fails on the second batch with more keys left in the listing.
C8_Witness ==
    /\ Len(transport) = 2
    /\ transport[1].response.kind = "ok"
    /\ transport[2].response.kind = "http_error"
    /\ stats.total_records > 0
    /\ Len(listed) < nfiles

---------------------------------------------------------------------------
(* C9 *)

\* A key of the listing that run hands to create_from_key and that does not parse.
Unparsable(key) == ~skips_key(key) /\ create_from_key(key).exc # "none"

\* C9 as stated: a key that does not parse never ends the run.
C9_ParseFailureNeverAborts ==
    ~(outcome.kind = "raised" /\ outcome.at = "parse")

\* C9, amended: when a listed CSV key does not parse, the exception of
\* create_from_key leaves run and ends it at that key: the file is neither
\* loaded nor recorded as failed, and no later key of the listing is reached.
C9_ParseFailureAborts ==
    \A i \in 1..Len(listed) :
        Unparsable(listed[i])
            => /\ i = Len(listed)
               /\ pc = "done"
               /\ outcome = Raised(create_from_key(listed[i]).exc, "parse")
               /\ listed[i] \notin Range(KeysOf(files))
               /\ listed[i] \notin Range(stats.failed_files)

\* A run ended by a key that does not parse, after a file was imported and
\* with more keys left in the listing.
C9_Witness ==
    /\ Len(listed) >= 2
    /\ Unparsable(listed[Len(listed)])
    /\ Len(transport) >= 1
    /\ Len(listed) < nfiles
    /\ pc = "done"

---------------------------------------------------------------------------
(* C10 *)

\* C10: validation problems never raise: load_error_check_csv (read_csv and
\* visit_row in it) always returns, so run never ends by an exception raised
\* while a file is validated.
C10_ValidationNeverRaises ==
    /\ ~(outcome.kind = "raised" /\ outcome.at = "load")
    /\ \A i \in 1..Len(files) : files[i].reason # "raised"

---------------------------------------------------------------------------
(* C11 *)

\* C11: a run halted by fail-fast returns without raising and the process
\* exits with status 0, whereas a run that gets past its last file with
\* recorded failed files raises and the process exits with a non-zero status.
C11_FailFastExitsZero ==
    pc = "done"
        => /\ (fail_fast /\ SomeFileFailed)
                => /\ outcome = Returned("fail_fast")
                   /\ exit_status(outcome) = 0
           /\ (outcome.at = "end" /\ NonEmpty(stats.failed_files))
                => /\ outcome.kind = "raised"
                   /\ outcome.exc = "RuntimeException"
                   /\ exit_status(outcome) # 0

\* A fail-fast run halted by its second file, after the first was imported:
\* the process exits with 0.
C11_Witness ==
    /\ fail_fast
    /\ pc = "done"
    /\ Len(files) = 2
    /\ Failed(2)
    /\ Len(transport) = 1
    /\ exit_status(outcome) = 0

---------------------------------------------------------------------------
(* C12 *)

\* What create_from_key did with the key of subject.
KeyParsed == pc # "key"

\* C12: create_from_key raises ValueError for every key whose first segment is
\* not 'CSV', and for every key starting with 'CSV' whose number of segments
\* is neither 4 nor 5.
C12_MalformedKeyIsValueError ==
    KeyParsed
        => /\ subject.segments[1] # CsvMarker
                => subject.parsed.exc = "ValueError"
           /\ (subject.segments[1] = CsvMarker /\ Len(subject.segments) \notin {4, 5})
                => subject.parsed.exc = "ValueError"

\* A key of the 5-segment form under JSON instead of CSV was refused.
C12_Witness ==
    /\ KeyParsed
    /\ subject.segments = <<Json, ModUds, Ver3, <<"I">>, FileD1a>>
    /\ subject.parsed.exc = "ValueError"

---------------------------------------------------------------------------
(* C13 *)

\* The form name expected of a 5-segment key of the inputs: the second
\* underscore-delimited token of the filename, or for the header file the
\* lower-cased module followed by '_header'.
ExpectedFormName(module, filename) ==
    IF filename = FileD1a THEN <<"d", "1", "a">>
    ELSE IF module = ModUds THEN <<"u", "d", "s", "_", "h", "e", "a", "d", "e", "r">>
    ELSE IF module = Enroll THEN <<"e", "n", "r", "o", "l", "l", "_", "h", "e", "a", "d", "e", "r">>
    ELSE <<"l", "b", "d", "_", "h", "e", "a", "d", "e", "r">>

\* C13: for every 5-segment key under 'CSV' whose filename has a second
\* underscore-delimited token, create_from_key returns a key whose module,
\* form_ver, packet and filename are the 2nd to 5th segments and whose
\* form_name is that token, or the lower-cased module plus '_header' when the
\* token is 'header'.
C13_FiveSegmentKey ==
    (/\ KeyParsed
     /\ Len(subject.segments) = 5
     /\ subject.segments[1] = CsvMarker
     /\ subject.segments[5] \in {FileD1a, FileHeader})
        => /\ subject.parsed.exc = "none"
           /\ subject.parsed.key.full_path = subject.key
           /\ subject.parsed.key.csv = CsvMarker
           /\ subject.parsed.key.module = subject.segments[2]
           /\ subject.parsed.key.form_ver = subject.segments[3]
           /\ subject.parsed.key.packet = subject.segments[4]
           /\ subject.parsed.key.filename = subject.segments[5]
           /\ subject.parsed.key.form_name =
                 ExpectedFormName(subject.segments[2], subject.segments[5])

\* The header file of a module written in mixed case: form name lbd_header.
C13_Witness ==
    /\ KeyParsed
    /\ subject.segments = <<CsvMarker, ModMixed, Ver3, <<"F">>, FileHeader>>
    /\ subject.parsed.exc = "none"
    /\ subject.parsed.key.form_name = <<"l", "b", "d", "_", "h", "e", "a", "d", "e", "r">>

---------------------------------------------------------------------------
(* C14 *)

\* C14: for every 4-segment key under 'CSV', create_from_key returns a key
\* without packet and with form_name 'enrl' when the module is 'ENROLL', and
\* otherwise raises AssertionError, which is not the ValueError of a
\* malformed key.
C14_FourSegmentKey ==
    (/\ KeyParsed
     /\ Len(subject.segments) = 4
     /\ subject.segments[1] = CsvMarker)
        => IF subject.segments[2] = Enroll
           THEN /\ subject.parsed.exc = "none"
                /\ subject.parsed.key.packet = NoneVal
                /\ subject.parsed.key.form_name = <<"e", "n", "r", "l">>
                /\ subject.parsed.key.module = Enroll
                /\ subject.parsed.key.form_ver = subject.segments[3]
                /\ subject.parsed.key.filename = subject.segments[4]
           ELSE /\ subject.parsed.exc = "AssertionError"
                /\ subject.parsed.exc # "ValueError"

\* A 4-segment key of a module other than ENROLL failed the assertion.
C14_Witness ==
    /\ KeyParsed
    /\ subject.segments = <<CsvMarker, ModUds, Ver3, FileD1a>>
    /\ subject.parsed.exc = "AssertionError"

---------------------------------------------------------------------------
(* C15 *)

\* get_visit_type was called on the parsed key of subject.
VisitTypeAsked == subject.op = "get_visit_type"

\* C15 as stated: no packet gives None, 'I4' gives 'i4vp', a packet starting
\* with 'F' gives 'fvp', every other non-null packet gives 'ivp'.
C15_VisitTypeOfNonNullPacket ==
    VisitTypeAsked
        => subject.visit_type =
              IF subject.parsed.key.packet = NoneVal THEN NoneVal
              ELSE IF subject.parsed.key.packet = <<"I", "4">> THEN <<"i", "4", "v", "p">>
              ELSE IF /\ Len(subject.parsed.key.packet) > 0
                      /\ subject.parsed.key.packet[1] = "F" THEN <<"f", "v", "p">>
              ELSE <<"i", "v", "p">>

\* C15, amended: get_visit_type is a total function of the packet: an absent
\* or empty packet gives None, 'I4' gives 'i4vp', a packet starting with 'F'
\* gives 'fvp', every other non-empty packet gives 'ivp'.
C15_VisitTypeOfPacket ==
    VisitTypeAsked
        => subject.visit_type =
              IF subject.parsed.key.packet \in {NoneVal, <<>>} THEN NoneVal
              ELSE IF subject.parsed.key.packet = <<"I", "4">> THEN <<"i", "4", "v", "p">>
              ELSE IF subject.parsed.key.packet[1] = "F" THEN <<"f", "v", "p">>
              ELSE <<"i", "v", "p">>

\* A key with an empty packet segment: the packet is the empty string, the
\* visit type None.
C15_Witness ==
    /\ VisitTypeAsked
    /\ subject.segments[4] = <<>>
    /\ subject.parsed.key.packet = <<>>
    /\ subject.visit_type = NoneVal

---------------------------------------------------------------------------
(* C16 *)

\* visit_header was called on the visitor of subject.
HeaderVisited == pc \in {"rows", "done"}

\* C16: visit_header returns true iff every name of REQUIRED_HEADERS is in the
\* header, a missing 'packet' being tolerated exactly when the key's packet is
\* None; names outside REQUIRED_HEADERS change nothing.
C16_HeaderValidIffRequiredPresent ==
    HeaderVisited
        => /\ subject.header_result.valid
                <=> \A h \in Range(REQUIRED_HEADERS) :
                        \/ h \in Range(subject.header)
                        \/ (h = "packet" /\ subject.key.packet = NoneVal)
           /\ subject.header_result.valid
                = visit_header(subject.key,
                               SelectSeq(subject.header,
                                         LAMBDA h : h \in Range(REQUIRED_HEADERS))).valid
           /\ Range(subject.header_result.missing)
                = {h \in Range(REQUIRED_HEADERS) :
                      /\ h \notin Range(subject.header)
                      /\ ~(h = "packet" /\ subject.key.packet = NoneVal)}

\* The enrollment visitor accepted a header without 'packet' and with an
\* extra column.
C16_Witness ==
    /\ HeaderVisited
    /\ subject.key.packet = NoneVal
    /\ subject.header = HeaderNoPacket \o <<"error_no">>
    /\ subject.header_result.valid

---------------------------------------------------------------------------
(* C17 *)

\* visit_row was called on the visitor of subject.
RowVisited == pc = "done" /\ subject.op = "visit_row"

\* visit_row returned False.
ReturnedFalse == subject.row_result.exc = "none" /\ ~subject.row_result.valid

\* The row holds an empty value in a required field other than comp_forms
\* and comp_vars.
HasEmptyRequired(row) ==
    \E i \in 1..Len(row) :
        /\ row[i].f \in Range(REQUIRED_HEADERS)
        /\ row[i].f \notin Range(ALLOWED_EMPTY_FIELDS)
        /\ row[i].v \in {EmptyStr, NoneVal}

\* The row with its empty comp_forms, comp_vars and non-required columns filled.
FilledOptional(row) ==
    [i \in 1..Len(row) |->
        IF /\ row[i].v = EmptyStr
           /\ \/ row[i].f \in Range(ALLOWED_EMPTY_FIELDS)
              \/ row[i].f \notin Range(REQUIRED_HEADERS)
        THEN [f |-> row[i].f, v |-> Val]
        ELSE row[i]]

\* C17: visit_row returns False for every row with an empty required field
\* other than comp_forms and comp_vars; emptying comp_forms, comp_vars or a
\* non-required column changes no row's verdict.
C17_EmptyRequiredFieldRejects ==
    RowVisited
        => /\ HasEmptyRequired(subject.row) => ReturnedFalse
           /\ subject.row_result.valid
                = visit_row(subject.key, subject.validated,
                            FilledOptional(subject.row), 1).valid

---------------------------------------------------------------------------
(* C18 *)

\* C18: visit_row returns False for every row whose form_name differs from the
\* key's form name, and for every row whose error_code does not start with it.
C18_FormNameMismatchRejects ==
    RowVisited
        => /\ Get(subject.row, "form_name", EmptyStr) # subject.key.form_name
                => ReturnedFalse
           /\ ~StartsWith(Get(subject.row, "error_code", EmptyStr), subject.key.form_name)
                => ReturnedFalse

---------------------------------------------------------------------------
(* C19 *)

\* C19: for a key with a (non-empty) packet, visit_row returns False for every row whose
\* error_code does not contain the key's visit type and for every row whose
\* packet is not the key's packet; for a key without packet neither check
\* applies, and a row without packet field that is otherwise in order validates.
C19_PacketMismatchRejects ==
    RowVisited
        => /\ (/\ Truthy(subject.key.packet)
               /\ get_visit_type(subject.key) # NoneVal
               /\ ~Contains(Get(subject.row, "error_code", EmptyStr),
                            get_visit_type(subject.key)))
                => ReturnedFalse
           /\ (/\ Truthy(subject.key.packet)
               /\ Get(subject.row, "packet", EmptyStr) # subject.key.packet)
                => ReturnedFalse
           /\ (/\ subject.key.packet = NoneVal
               /\ ~HasEmptyRequired(subject.row)
               /\ Get(subject.row, "form_name", EmptyStr) = subject.key.form_name
               /\ StartsWith(Get(subject.row, "error_code", EmptyStr),
                             subject.key.form_name))
                => subject.row_result.exc = "none" /\ subject.row_result.valid

---------------------------------------------------------------------------
(* C20 *)

\* The names of the columns of a row or record.
FieldsOf(d) == {d[i].f : i \in 1..Len(d)}

\* C20: a row that passes all checks appends one record to the validated
\* records, holding exactly the REQUIRED_HEADERS names present in the row,
\* each once and with the row's value; any other row appends nothing.
C20_ValidRowIsProjected ==
    RowVisited
        => IF subject.row_result.exc = "none" /\ subject.row_result.valid
           THEN /\ Len(subject.row_result.validated) = Len(subject.validated) + 1
                /\ SubSeq(subject.row_result.validated, 1, Len(subject.validated))
                      = subject.validated
                /\ LET record == subject.row_result.validated[Len(subject.validated) + 1]
                   IN  /\ FieldsOf(record)
                             = FieldsOf(subject.row) \cap Range(REQUIRED_HEADERS)
                       /\ Len(record) = Cardinality(FieldsOf(record))
                       /\ \A i \in 1..Len(record) :
                             \E j \in 1..Len(subject.row) :
                                 subject.row[j] = record[i]
           ELSE subject.row_result.validated = subject.validated

\* A valid enrollment row without packet and with an extra column, visited
\* after an earlier record: the new record has the eleven required columns
\* of the row and not the extra one.
C20_Witness ==
    /\ RowVisited
    /\ subject.key.packet = NoneVal
    /\ subject.validated = <<PriorRecord>>
    /\ subject.row_result.exc = "none"
    /\ subject.row_result.valid
    /\ "error_no" \in FieldsOf(subject.row)
    /\ "packet" \notin FieldsOf(subject.row)
    /\ Len(subject.row_result.validated) = 2
    /\ "error_no" \notin FieldsOf(subject.row_result.validated[2])
    /\ Len(subject.row_result.validated[2]) = Len(subject.row) - 1

---------------------------------------------------------------------------
(* C21 *)

\* The file the step loaded from the object store (the step is a LoadFile).
FileLoaded == Len(files') = Len(files) + 1

\* C21: a file holding a valid header row and no data row yields no validated
\* record and load_error_check_csv returns no batch for it ("no error checks
\* found"): the step that loads it calls neither add_error_codes nor the
\* transport, and leaves the tracked codes and the running total as they were.
C21_HeaderOnlyFileFails ==
    [][(FileLoaded /\ files'[Len(files')].body = BodyHeaderOnly)
        => /\ read_csv(BodyHeaderOnly, error_key).success
           /\ read_csv(BodyHeaderOnly, error_key).validated = <<>>
           /\ files'[Len(files')].reason = "empty"
           /\ calls' = calls
           /\ transport' = transport
           /\ pc' # "import"
           /\ stats'.all_error_codes = stats.all_error_codes
           /\ stats'.total_records = stats.total_records]_vars

\* A header-only file failed in a run without fail-fast and was recorded,
\* after another file had been imported.
C21_Witness ==
    /\ Len(files) = 2
    /\ files[2].body = BodyHeaderOnly
    /\ files[2].reason = "empty"
    /\ Len(transport) = 1
    /\ stats.failed_files = <<files[2].key>>
    /\ Len(stats.all_error_codes) = Len(files[1].codes)

---------------------------------------------------------------------------
(* C22 *)

\* read_csv was called on the stream of subject.
CsvRead == pc = "done" /\ subject.op = "read_csv"

\* The stream is empty or has no header row.
NothingToRead(body) == body.empty \/ Len(body.header) = 0

\* C22: for an empty stream or one without header row read_csv returns False
\* and calls the visitor not at all; otherwise it calls visit_header once, and
\* when that returns False it returns False without any visit_row call.
C22_HeaderCheckedOnceBeforeRows ==
    CsvRead
        => /\ NothingToRead(subject.body)
                => /\ subject.result.exc = "none"
                   /\ ~subject.result.success
                   /\ subject.result.headers = 0
                   /\ subject.result.visits = <<>>
           /\ ~NothingToRead(subject.body)
                => subject.result.headers = 1
           /\ (/\ ~NothingToRead(subject.body)
               /\ ~visit_header(subject.key, subject.body.header).valid)
                => /\ subject.result.exc = "none"
                   /\ ~subject.result.success
                   /\ subject.result.visits = <<>>
                   /\ subject.result.validated = <<>>

\* A file lacking a required header and holding two valid-looking lines:
\* read_csv returned False after one header check and no row visit.
C22_Witness ==
    /\ CsvRead
    /\ subject.body.header = HeaderMissing
    /\ Len(subject.body.lines) = 2
    /\ subject.body.lines[1] = Line(GoodCells(CodeX))
    /\ subject.result.headers = 1
    /\ subject.result.visits = <<>>
    /\ ~subject.result.success

---------------------------------------------------------------------------
(* C23 *)

\* The line numbers of the data rows of a stream: the lines after the header
\* that are not blank, the header being line 1.
DataRowNumbers(body) ==
    SelectSeq([i \in 1..Len(body.lines) |-> i + 1],
              LAMBDA n : Len(body.lines[n - 1].cells) > 0)

\* The header check passes and the csv module fails on no line.
ReadsThrough(key, body) ==
    /\ ~NothingToRead(body)
    /\ visit_header(key, body.header).valid
    /\ \A i \in 1..Len(body.lines) : ~body.lines[i].err

\* C23: when the header check passes and no csv.Error occurs, read_csv visits
\* every data row once, in file order, also after a row that failed, and
\* returns the conjunction of the visit_row results.
C23_EveryRowVisited ==
    (CsvRead /\ ReadsThrough(subject.key, subject.body))
        => /\ subject.result.exc = "none"
           /\ subject.result.visits = DataRowNumbers(subject.body)
           /\ subject.result.success
                = \A i \in 1..Len(subject.body.lines) :
                      \/ Len(subject.body.lines[i].cells) = 0
                      \/ visit_row(subject.key, <<>>,
                                   DictRow(subject.body.header,
                                           subject.body.lines[i].cells),
                                   i + 1).valid

---------------------------------------------------------------------------
(* C24 *)

\* The step lists one more key.
KeyListed == Len(listed') = Len(listed) + 1

\* The module segment of a key of the listing (the second one).
ModuleOf(key) == SplitFrom(key, "/", <<>>, 1)[2]

\* The key ends in '.csv' and the module list is ['all'] or holds its module.
PassesFilter(key) ==
    /\ SubSeq(key, Len(key) - 3, Len(key)) = <<".", "c", "s", "v">>
    /\ modules = <<ModAll>> \/ ModuleOf(key) \in Range(modules)

\* C24: a listed key goes to get_object only if it ends in '.csv' and the
\* module list is ['all'] or holds the key's module; the step that lists any
\* other key loads and validates nothing, leaves the stats alone and imports
\* nothing, and every file loaded is the one of such a key.
C24_OnlyFilteredKeysLoaded ==
    [][/\ KeyListed
          => /\ pc' = "load"
                => /\ PassesFilter(listed'[Len(listed')])
                   /\ error_key'.full_path = listed'[Len(listed')]
             /\ ~PassesFilter(listed'[Len(listed')])
                => /\ pc' # "load"
                   /\ pc' # "import"
                   /\ files' = files
                   /\ calls' = calls
                   /\ stats' = stats
                   /\ transport' = transport
                   /\ error_checks' = error_checks
       /\ FileLoaded
          => /\ pc = "load"
             /\ files'[Len(files')].key = listed[Len(listed)]
             /\ PassesFilter(listed[Len(listed)])]_vars

\* With the module list ['UDS'], a '.txt' key and an LBD key were listed and
\* passed over, and the one UDS key was loaded.
C24_Witness ==
    /\ modules = <<ModUds>>
    /\ Len(listed) = 3
    /\ {KeyReadme, KeyLbdV3} \subseteq Range(listed)
    /\ KeysOf(files) = <<KeyUdsV3>>
    /\ pc = "loop"

---------------------------------------------------------------------------
(* C25 *)

\* The calls the import transport answered with a count.
AcceptedCalls == SelectSeq(transport, LAMBDA call : call.response.kind = "ok")

\* C25: at every point of a run the running total is the sum of the counts the
\* transport returned for the batches it accepted; only files that were loaded
\* with a batch reach the transport, and in a dry run none does, so failed
\* files, filtered keys and dry runs add nothing.
C25_TotalIsSumOfReturnedCounts ==
    /\ stats.total_records
         = SumSeq([t \in 1..Len(AcceptedCalls) |-> AcceptedCalls[t].response.count])
    /\ \A t \in 1..Len(transport) :
          \E i \in 1..Len(files) :
              /\ files[i].key = transport[t].key
              /\ files[i].reason = "ok"
    /\ Len(transport) <= Len(files)
    /\ dry_run => transport = <<>>

\* Two batches of different sizes imported and counted, a failed file between
\* them.
C25_Witness ==
    /\ ~dry_run
    /\ Len(files) = 3
    /\ files[1].reason = "ok" /\ Failed(2) /\ files[3].reason = "ok"
    /\ Len(AcceptedCalls) = 2
    /\ AcceptedCalls[1].response.count = 1
    /\ AcceptedCalls[2].response.count = 2
    /\ stats.total_records = 3

---------------------------------------------------------------------------
(* C26 *)

\* Whether run hands a key of the listing to get_object, for each module list.
LoadTable ==
    [key \in KeyPool, mods \in ModulesPool |->
        key_step(key, create_from_key(key), mods).pc = "load"]

\* run hands key to get_object.
GoesToLoad(key) == LoadTable[key, modules]

\* C26: without fail-fast no failed file ends the run: every key before the
\* last one listed that passes the filter has been loaded (all of them once the
\* run reached its end), every file that yielded a batch has been handed to the
\* transport (the one being imported aside), and a run that ends with the
\* aggregate failure has its batches imported and counted.
C26_FailureDoesNotStopRun ==
    ~fail_fast
        => /\ outcome.at # "fail_fast"
           /\ SomeFileFailed => (pc = "done" => outcome.kind = "raised")
           /\ \A i \in 1..Len(listed) :
                 (GoesToLoad(listed[i]) /\ (i < Len(listed) \/ outcome.at = "end"))
                    => listed[i] \in Range(KeysOf(files))
           /\ ~dry_run
                => \A i \in 1..Len(files) :
                      (files[i].reason = "ok" /\ ~(i = Len(files) /\ pc = "import"))
                         => files[i].key \in SentKeys
           /\ (outcome.at = "end" /\ outcome.kind = "raised")
                => /\ Len(listed) = nfiles
                   /\ SomeFileFailed
                   /\ \A t \in 1..Len(transport) : transport[t].response.kind = "ok"
                   /\ stats.total_records = SumSeq(ReturnedCounts)

\* The first file failed, the two after it were loaded and imported, and the
\* run ended with the aggregate failure.
C26_Witness ==
    /\ ~fail_fast
    /\ outcome.at = "end" /\ outcome.kind = "raised"
    /\ Len(files) = 3
    /\ Failed(1) /\ files[2].reason = "ok" /\ files[3].reason = "ok"
    /\ Len(transport) = 2
    /\ stats.total_records = 2

---------------------------------------------------------------------------
(* C29 *)

\* Whether some data row of a body fails validation for the key of the file,
\* for each key that parses and each body.
RowFailTable ==
    [full_path \in {k \in KeyPool : create_from_key(k).exc = "none"}, body \in BodyPool |->
        /\ ~NothingToRead(body)
        /\ \E i \in 1..Len(body.lines) :
              /\ Len(body.lines[i].cells) > 0
              /\ ~visit_row(create_from_key(full_path).key, <<>>,
                            DictRow(body.header, body.lines[i].cells), i + 1).valid]

\* Some data row of the body fails validation for the key of the file.
SomeRowFails(full_path, body) == RowFailTable[full_path, body]

\* C29: a file with a data row that fails validation is never a batch: none
\* of its records reaches the import transport and none of its codes is
\* tracked, also when its other rows passed and were collected by the visitor.
C29_AllOrNothingPerFile ==
    \A i \in 1..Len(files) :
        SomeRowFails(files[i].key, files[i].body)
            => /\ files[i].reason \in {"read", "raised"}
               /\ files[i].key \notin SentKeys
               /\ files[i].codes = <<>>
               /\ i = Len(files) => (pc # "import" /\ error_checks = NoBatch)

\* A file with a valid first row and an invalid second row failed in a run
\* that imported the file before it; the visitor had collected the valid row.
C29_Witness ==
    /\ Len(files) = 2
    /\ files[1].reason = "ok"
    /\ files[2].body = BodyBadRow /\ files[2].reason = "read"
    /\ Len(read_csv(BodyBadRow, create_from_key(files[2].key).key).validated) = 1
    /\ Len(transport) = 1
    /\ pc = "loop"

---------------------------------------------------------------------------
(* C30 *)

\* The error_code column of a body.
BodyCodes(body) ==
    LET col == CHOOSE c \in 1..Len(body.header) : body.header[c] = "error_code"
    IN  [i \in 1..Len(body.lines) |-> body.lines[i].cells[col]]

\* File i passed CSV validation with at least one record.
Validated(i) == files[i].reason \in {"ok", "duplicate"}

\* C30: at every point of a run the tracked codes are the codes of the files
\* that passed CSV validation with at least one record, accepted or rejected
\* as duplicate, in order; a later validated file holding a code of any of
\* them is rejected as duplicate; the codes of other files are not tracked.
C30_CodesOfValidatedFilesTracked ==
    /\ stats.all_error_codes
         = Concat([i \in 1..Len(files) |->
                     IF Validated(i) THEN BodyCodes(files[i].body) ELSE <<>>])
    /\ \A i, j \in 1..Len(files) :
          (j < i /\ Validated(j) /\ Validated(i)
             /\ Range(BodyCodes(files[i].body)) \cap Range(BodyCodes(files[j].body)) # {})
            => files[i].reason = "duplicate"

\* X imported; the file with X and Y rejected as duplicate, so Y was never
\* imported; the file with Y and Z rejected because of Y.
C30_Witness ==
    /\ Len(files) = 3
    /\ files[1].body = BodyX /\ files[1].reason = "ok"
    /\ files[2].body = BodyXY /\ files[2].reason = "duplicate"
    /\ files[3].body = BodyYZ /\ files[3].reason = "duplicate"
    /\ \A t \in 1..Len(transport) : CodeY \notin SentCodes(t)
    /\ Len(transport) = 1
    /\ stats.all_error_codes = <<CodeX, CodeX, CodeY, CodeY, CodeZ>>

---------------------------------------------------------------------------
(* C27 *)

\* The field each message of visit_row is about.
FieldOfMessage(entry) ==
    IF entry.msg = "does not match expected form name" THEN "form_name"
    ELSE IF entry.msg = "does not match expected packet" THEN "packet"
    ELSE IF entry.msg = "cannot be empty" THEN entry.field
    ELSE "error_code"

\* The number of checks the row of subject fails.
FailedCheckCount ==
    LET c == failed_checks(subject.key,
                           Get(subject.row, "form_name", EmptyStr),
                           Get(subject.row, "error_code", EmptyStr),
                           Get(subject.row, "packet", EmptyStr))
        one(b) == IF b THEN 1 ELSE 0
    IN  Len(empty_fields(subject.row))
        + one(c.form) + one(c.prefix) + one(c.visit) + one(c.packet)

\* Every failed check of the row has its entry in the log, with the line number.
OneEntryPerFailedCheck ==
    /\ Len(subject.row_result.log) = FailedCheckCount
    /\ \A i \in 1..Len(subject.row_result.log) : subject.row_result.log[i].line = 1

\* C27: when visit_row returns False it has logged one error per failed
\* check, each with the row's line number and the name of the field that
\* failed the check: form_name, error_code or packet for the consistency
\* checks, the empty field for an emptiness check.
C27_LogNamesFailedField ==
    (RowVisited /\ ReturnedFalse)
        => /\ OneEntryPerFailedCheck
           /\ \A i \in 1..Len(subject.row_result.log) :
                 subject.row_result.log[i].field
                    = FieldOfMessage(subject.row_result.log[i])

---------------------------------------------------------------------------
(* C28 *)

\* C28: create_from_key returns a key or raises the ValueError of a malformed
\* key or the AssertionError of the enrollment check, whatever the key string.
C28_OnlyDeclaredFaults ==
    KeyParsed => subject.parsed.exc \in {"none", "ValueError", "AssertionError"}

====
